---- MODULE Spec2Model ----
(***************************************************************************)
(* BrowserManager (connection lifecycle manager) and getFreePort.          *)
(*                                                                         *)
(* One manager instance is shared by several callers running on a single   *)
(* cooperative event loop.  Code between two awaits is one atomic step; a  *)
(* caller's pc names the await it is suspended at.  External operations    *)
(* (port probe, chromium.launch, newContext, newPage, registry            *)
(* registration, client.connect) settle nondeterministically with success  *)
(* or failure.                                                             *)
(***************************************************************************)
EXTENDS Integers, Sequences, FiniteSets, TLC

\* ---- bounds ----
NumCallers == 2
MaxPort == 2
MaxCalls == 3
MaxNamePort == 110

Callers == 1..NumCallers
Ports == 1..MaxPort
NamePorts == 1..MaxNamePort
Sessions == {"p", "q"}

VARIABLES
    \* BrowserManager fields
    remoteDebuggingPort,  \* 0 = undefined
    browser,              \* 0 = undefined, else index into browsers
    page,                 \* 0 = undefined, else index of the browser it was opened from
    mcpClient,            \* NoClient = undefined, else the client's name
    \* collaborators
    hasManager,           \* config.getMcpClientManager() returns a manager
    browsers,             \* every browser chromium.launch has produced
    osPorts,              \* how many distinct port numbers the OS has handed out
    registry,             \* McpClientManager: name -> client
    \* callers
    op, pc, localPort, ctx,
    \* observation of calls made on collaborators and of what calls returned
    nCalls, nAlloc, nLaunch,
    returned,             \* what the call that settled in the last step gave its caller
    lastFail,             \* stage the last failed ensure failed in, "none" once one succeeds
    \* client-name derivation on its own: the port each of two sessions holds and
    \* the name each has computed from it (NoClient = not computed yet)
    sessionPort, sessionName,
    \* getFreePort on its own, one probe per caller: the probe server's socket,
    \* what server.address() gave, the closure's port, the promise, listen calls
    probeServer, probeAddress, probePort, probePromise, nListen

mgrVars == <<remoteDebuggingPort, browser, page, mcpClient>>
envVars == <<hasManager, browsers, osPorts, registry>>
callVars == <<op, pc, localPort, ctx>>
obsVars == <<nCalls, nAlloc, nLaunch>>
nameVars == <<sessionPort, sessionName>>
netVars == <<probeServer, probeAddress, probePort, probePromise, nListen>>
sideVars == <<nameVars, netVars>>
vars == <<mgrVars, envVars, callVars, obsVars, returned, lastFail, sideVars>>

\* ---- string formatting ----
Digit(d) ==
    CASE d = 0 -> "0" [] d = 1 -> "1" [] d = 2 -> "2" [] d = 3 -> "3"
      [] d = 4 -> "4" [] d = 5 -> "5" [] d = 6 -> "6" [] d = 7 -> "7"
      [] d = 8 -> "8" [] d = 9 -> "9"

RECURSIVE Dec(_)
Dec(n) == IF n < 10 THEN <<Digit(n)>> ELSE Dec(n \div 10) \o <<Digit(n % 10)>>

\* the name does not depend on the port
ClientName_Fixed(p) == <<"chrome-devtools">>

ClientName(p) == <<"chrome-devtools-">> \o Dec(p)
BrowserUrl(p) == <<"http://127.0.0.1:">> \o Dec(p)
LaunchArgs(p) == <<<<"--remote-debugging-port=">> \o Dec(p), <<"--window-size=1024,1024">>>>
McpArgs(p) == <<<<"-y">>, <<"chrome-devtools-mcp@latest">>, <<"--browser-url">>, BrowserUrl(p)>>

Names == {ClientName(p) : p \in Ports}
NoClient == <<>>
Absent == [status |-> "absent", args |-> <<>>]

\* ---- getFreePort ----
\* Port numbers are named in the order the OS first hands them out; it may hand
\* out a number again.
Addresses ==
    {[kind |-> "string", port |-> 0], [kind |-> "null", port |-> 0]}
        \cup {[kind |-> "info", port |-> p] : p \in 0..MaxPort}

\* typeof address === 'string' ? 0 : address?.port  (undefined is read as 0)
AddressPort(address) ==
    IF address.kind = "string" THEN 0
    ELSE IF address.kind = "null" THEN 0 ELSE address.port

GoodAddresses == {a \in Addresses : AddressPort(a) # 0}
BadAddresses == Addresses \ GoodAddresses

\* ---- stage guards ----
\* the port is allocated on every call
NeedsPort_Always == TRUE

NeedsPort == remoteDebuggingPort = 0

\* the liveness test is inverted
NeedsLaunch_Inverted == browser = 0 \/ browsers[browser].connected

NeedsLaunch == browser = 0 \/ ~browsers[browser].connected

\* the status test is inverted
ClientReady_Inverted == mcpClient # NoClient /\ registry[mcpClient].status # "connected"

ClientReady == mcpClient # NoClient /\ registry[mcpClient].status = "connected"

\* the page test is inverted
PageStored_Inverted == page = 0

PageStored == page # 0

\* ---- the synchronous run of ensureBrowserLaunched up to its next await ----
Base(p) ==
    [pc |-> "ret", err |-> "none", stage |-> "none", dAlloc |-> 0, dLaunch |-> 0,
     client |-> mcpClient, lport |-> p]

Throw(p, e, s) == [Base(p) EXCEPT !.pc = "idle", !.err = e, !.stage = s]

\* connectMcp returns quietly when the registry has no client under the name
ResolveClient_AbsentReturns(p, entry) ==
    IF entry.status = "absent"
    THEN Base(p)
    ELSE IF entry.status # "connected"
    THEN [Base(p) EXCEPT !.pc = "awaitConnect"]
    ELSE [Base(p) EXCEPT !.client = ClientName(p)]

ResolveClient(p, entry) ==
    IF entry.status = "absent"
    THEN Throw(p, "Failed to initialize chrome-devtools MCP client", "client")
    ELSE IF entry.status # "connected"
    THEN [Base(p) EXCEPT !.pc = "awaitConnect"]
    ELSE [Base(p) EXCEPT !.client = ClientName(p)]

\* the registry is not consulted before registering
ConnectMcp_AlwaysRegisters(p) ==
    IF ~hasManager
    THEN Throw(p, "MCP Client Manager not available in config", "client")
    ELSE [Base(p) EXCEPT !.pc = "awaitRegister"]

ConnectMcp(p) ==
    IF ~hasManager
    THEN Throw(p, "MCP Client Manager not available in config", "client")
    ELSE IF registry[ClientName(p)].status = "absent"
    THEN [Base(p) EXCEPT !.pc = "awaitRegister"]
    ELSE ResolveClient(p, registry[ClientName(p)])

ClientStage(p) == IF ClientReady THEN Base(p) ELSE ConnectMcp(p)

\* the browser guard is skipped and the client stage runs first
BrowserStage_ClientFirst(p) == ClientStage(p)

BrowserStage(p) ==
    IF NeedsLaunch
    THEN [Base(p) EXCEPT !.pc = "awaitLaunch", !.dLaunch = 1]
    ELSE ClientStage(p)

EnsureBrowserLaunched ==
    IF NeedsPort
    THEN [Base(0) EXCEPT !.pc = "awaitPort", !.dAlloc = 1]
    ELSE BrowserStage(remoteDebuggingPort)

Error(e) == [kind |-> "error", val |-> e]

NoReturn == [caller |-> 0, kind |-> "none", val |-> 0]

\* a call settles and its outcome is observed
Settle(c, r) == returned' = [caller |-> c, kind |-> r.kind, val |-> r.val]

Apply(c, o, e) ==
    /\ pc' = [pc EXCEPT ![c] = e.pc]
    /\ op' = [op EXCEPT ![c] = IF e.err # "none" THEN "none" ELSE o]
    /\ localPort' = [localPort EXCEPT ![c] = IF e.err # "none" THEN 0 ELSE e.lport]
    /\ IF e.err # "none"
       THEN Settle(c, Error(e.err))
       ELSE returned' = NoReturn
    /\ nAlloc' = nAlloc + e.dAlloc
    /\ nLaunch' = nLaunch + e.dLaunch
    /\ mcpClient' = e.client
    /\ lastFail' = IF e.err # "none" THEN e.stage ELSE lastFail
    /\ UNCHANGED sideVars

InitManager ==
    /\ remoteDebuggingPort = 0
    /\ browser = 0
    /\ page = 0
    /\ mcpClient = NoClient
    /\ hasManager \in BOOLEAN
    /\ browsers = <<>>
    /\ osPorts = 0
    /\ registry = [n \in Names |-> Absent]
    /\ op = [c \in Callers |-> "none"]
    /\ pc = [c \in Callers |-> "idle"]
    /\ localPort = [c \in Callers |-> 0]
    /\ ctx = [c \in Callers |-> 0]
    /\ nCalls = 0
    /\ nAlloc = 0
    /\ nLaunch = 0
    /\ returned = NoReturn
    /\ lastFail = "none"

Pending == [state |-> "pending", val |-> 0]

\* no probe has been started
InitNet ==
    /\ probeServer = [c \in Callers |-> "none"]
    /\ probeAddress = [c \in Callers |-> [kind |-> "null", port |-> 0]]
    /\ probePort = [c \in Callers |-> 0]
    /\ probePromise = [c \in Callers |-> Pending]
    /\ nListen = [c \in Callers |-> 0]

\* the name derivation and the probes studied on their own stay out of the
\* manager's runs
Init ==
    /\ InitManager
    /\ sessionPort = [s \in Sessions |-> 0]
    /\ sessionName = [s \in Sessions |-> NoClient]
    /\ InitNet

\* ---- calls ----
\* a call takes the lowest free slot
Begin(c) ==
    /\ pc[c] = "idle"
    /\ \A d \in Callers : d < c => pc[d] # "idle"
    /\ nCalls < MaxCalls
    /\ nCalls' = nCalls + 1

EnterEnsure(c, o) ==
    /\ Apply(c, o, EnsureBrowserLaunched)
    /\ UNCHANGED <<remoteDebuggingPort, browser, page, envVars, ctx>>

ReturnNow(c, r) ==
    /\ Settle(c, r)
    /\ UNCHANGED <<mgrVars, envVars, op, pc, localPort, ctx, nAlloc, nLaunch, lastFail,
                   sideVars>>

getMcpClient(c) ==
    /\ Begin(c)
    /\ IF ClientReady
       THEN ReturnNow(c, [kind |-> "client", val |-> mcpClient])
       ELSE EnterEnsure(c, "getMcpClient")

getPage(c) ==
    /\ Begin(c)
    /\ IF PageStored
       THEN ReturnNow(c, [kind |-> "page", val |-> page])
       ELSE EnterEnsure(c, "getPage")

ensureConnection(c) ==
    /\ Begin(c)
    /\ EnterEnsure(c, "ensureConnection")

\* the accessor resumes after `await this.ensureBrowserLaunched()`
Resume(c) ==
    /\ pc[c] = "ret"
    /\ pc' = [pc EXCEPT ![c] = "idle"]
    /\ Settle(c,
          CASE op[c] = "getMcpClient" ->
                 IF mcpClient = NoClient
                 THEN Error("Failed to initialize chrome-devtools MCP client")
                 ELSE [kind |-> "client", val |-> mcpClient]
            [] op[c] = "getPage" ->
                 IF ~PageStored
                 THEN Error("Browser page not available")
                 ELSE [kind |-> "page", val |-> page]
            [] OTHER -> [kind |-> "void", val |-> 0])
    /\ op' = [op EXCEPT ![c] = "none"]
    /\ localPort' = [localPort EXCEPT ![c] = 0]
    /\ ctx' = [ctx EXCEPT ![c] = 0]
    /\ lastFail' = "none"
    /\ UNCHANGED <<mgrVars, envVars, obsVars, sideVars>>

\* ---- port stage: getFreePort settles ----
\* a failing stage discards the stored browser and page
Reject_RollsBack(c, e, s) ==
    /\ Apply(c, op[c], Throw(localPort[c], e, s))
    /\ ctx' = [ctx EXCEPT ![c] = 0]
    /\ browser' = 0
    /\ page' = 0
    /\ UNCHANGED <<remoteDebuggingPort, envVars, nCalls>>

Reject(c, e, s) ==
    /\ Apply(c, op[c], Throw(localPort[c], e, s))
    /\ ctx' = [ctx EXCEPT ![c] = 0]
    /\ UNCHANGED <<remoteDebuggingPort, browser, page, envVars, nCalls>>

getFreePortListening(c, address) ==
    /\ pc[c] = "awaitPort"
    /\ LET port == AddressPort(address) IN
         IF port # 0
         THEN /\ port <= osPorts + 1
              /\ osPorts' = IF port > osPorts THEN port ELSE osPorts
              /\ remoteDebuggingPort' = port
              /\ Apply(c, op[c], BrowserStage(port))
              /\ UNCHANGED <<browser, page, hasManager, browsers, registry, ctx, nCalls>>
         ELSE Reject(c, "Failed to get port", "port")

\* the socket error is swallowed and the call goes on to the browser stage
getFreePortError_Swallowed(c) ==
    /\ pc[c] = "awaitPort"
    /\ Apply(c, op[c], BrowserStage(0))
    /\ UNCHANGED <<remoteDebuggingPort, browser, page, envVars, ctx, nCalls>>

getFreePortError(c) ==
    /\ pc[c] = "awaitPort"
    /\ Reject(c, "socket error", "port")

\* ---- browser stage: launchBrowser ----
Advance(c, next) ==
    /\ pc' = [pc EXCEPT ![c] = next]
    /\ returned' = NoReturn
    /\ UNCHANGED <<op, localPort, obsVars, lastFail, sideVars>>

launchResolved(c) ==
    /\ pc[c] = "awaitLaunch"
    /\ browsers' = Append(browsers, [args |-> LaunchArgs(localPort[c]), connected |-> TRUE])
    /\ browser' = Len(browsers) + 1
    /\ ctx' = [ctx EXCEPT ![c] = Len(browsers) + 1]
    /\ Advance(c, "awaitContext")
    /\ UNCHANGED <<remoteDebuggingPort, page, mcpClient, hasManager, osPorts, registry>>

launchFailed(c) ==
    /\ pc[c] = "awaitLaunch"
    /\ Reject(c, "launch failed", "browser")

newContextResolved(c) ==
    /\ pc[c] = "awaitContext"
    /\ browsers[ctx[c]].connected
    /\ Advance(c, "awaitPage")
    /\ UNCHANGED <<mgrVars, envVars, ctx>>

newContextFailed(c) ==
    /\ pc[c] = "awaitContext"
    /\ Reject(c, "newContext failed", "browser")

newPageResolved(c) ==
    /\ pc[c] = "awaitPage"
    /\ browsers[ctx[c]].connected
    /\ page' = ctx[c]
    /\ Advance(c, "afterLaunch")
    /\ UNCHANGED <<remoteDebuggingPort, browser, mcpClient, envVars, ctx>>

newPageFailed(c) ==
    /\ pc[c] = "awaitPage"
    /\ Reject(c, "newPage failed", "browser")

\* ensureBrowserLaunched resumes after `await this.launchBrowser(port)`
afterLaunch(c) ==
    /\ pc[c] = "afterLaunch"
    /\ Apply(c, op[c], ClientStage(localPort[c]))
    /\ UNCHANGED <<remoteDebuggingPort, browser, page, envVars, ctx, nCalls>>

\* ---- client stage: connectMcp ----
\* maybeDiscoverMcpServer resolves; st is the status of the client the registry
\* then holds under the name ("absent": it registered none)
registerResolved(c, st) ==
    /\ pc[c] = "awaitRegister"
    /\ LET name == ClientName(localPort[c])
           entry == IF st = "absent" THEN registry[name]
                    ELSE [status |-> st, args |-> McpArgs(localPort[c])]
       IN /\ registry' = [registry EXCEPT ![name] = entry]
          /\ Apply(c, op[c], ResolveClient(localPort[c], entry))
    /\ UNCHANGED <<remoteDebuggingPort, browser, page, hasManager, browsers, osPorts,
                   ctx, nCalls>>

registerFailed(c) ==
    /\ pc[c] = "awaitRegister"
    /\ Reject(c, "registration failed", "client")

connectResolved(c) ==
    /\ pc[c] = "awaitConnect"
    /\ registry' = [registry EXCEPT ![ClientName(localPort[c])].status = "connected"]
    /\ mcpClient' = ClientName(localPort[c])
    /\ Advance(c, "ret")
    /\ UNCHANGED <<remoteDebuggingPort, browser, page, hasManager, browsers, osPorts, ctx>>

connectFailed(c) ==
    /\ pc[c] = "awaitConnect"
    /\ Reject(c, "connect failed", "client")

\* ---- the outside world ----
Referenced(b) == browser = b \/ page = b \/ \E c \in Callers : ctx[c] = b

browserDies(b) ==
    /\ Referenced(b)
    /\ browsers[b].connected
    /\ browsers' = [browsers EXCEPT ![b].connected = FALSE]
    /\ returned' = NoReturn
    /\ UNCHANGED <<mgrVars, hasManager, osPorts, registry, callVars, obsVars, lastFail,
                   sideVars>>

clientDisconnects(n) ==
    /\ registry[n].status = "connected"
    /\ registry' = [registry EXCEPT ![n].status = "disconnected"]
    /\ returned' = NoReturn
    /\ UNCHANGED <<mgrVars, hasManager, browsers, osPorts, callVars, obsVars, lastFail,
                   sideVars>>

\* ---- specifications ----
Call ==
    \/ \E c \in Callers : getMcpClient(c)
    \/ \E c \in Callers : getPage(c)
    \/ \E c \in Callers : ensureConnection(c)

Succeed ==
    \/ \E c \in Callers : Resume(c)
    \/ \E c \in Callers, a \in GoodAddresses : getFreePortListening(c, a)
    \/ \E c \in Callers : launchResolved(c)
    \/ \E c \in Callers : newContextResolved(c)
    \/ \E c \in Callers : newPageResolved(c)
    \/ \E c \in Callers : afterLaunch(c)
    \/ \E c \in Callers, st \in {"disconnected", "connected"} : registerResolved(c, st)
    \/ \E c \in Callers : connectResolved(c)

Fail ==
    \/ \E c \in Callers, a \in BadAddresses : getFreePortListening(c, a)
    \/ \E c \in Callers : getFreePortError(c)
    \/ \E c \in Callers : launchFailed(c)
    \/ \E c \in Callers : newContextFailed(c)
    \/ \E c \in Callers : newPageFailed(c)
    \/ \E c \in Callers : registerResolved(c, "absent")
    \/ \E c \in Callers : registerFailed(c)
    \/ \E c \in Callers : connectFailed(c)

Die ==
    \/ \E b \in DOMAIN browsers : browserDies(b)
    \/ \E n \in Names : clientDisconnects(n)

AllIdle == \A c \in Callers : pc[c] = "idle"

\* the caller awaits each call before making the next
SeqCall ==
    \/ \E c \in Callers : AllIdle /\ getMcpClient(c)
    \/ \E c \in Callers : AllIdle /\ getPage(c)
    \/ \E c \in Callers : AllIdle /\ ensureConnection(c)

Next == Call \/ Succeed \/ Fail \/ Die

\* every interleaving, every failure, every death
Spec == Init /\ [][Next]_vars

\* calls one after another; every failure, every death
SpecSeq == Init /\ [][SeqCall \/ Succeed \/ Fail \/ Die]_vars

\* the configuration provides an MCP client manager
InitOk == Init /\ hasManager

\* calls one after another, no external operation fails
SpecSeqOk == InitOk /\ [][SeqCall \/ Succeed \/ Die]_vars

\* every interleaving, no external operation fails, nothing dies
SpecOk == InitOk /\ [][Call \/ Succeed]_vars

\* calls one after another, every failure, nothing dies
SpecSeqNoDeath == Init /\ [][SeqCall \/ Succeed \/ Fail]_vars

\* the pending operation of caller c settles successfully, or its call resumes
Progress(c) ==
    \/ Resume(c)
    \/ \E a \in GoodAddresses : getFreePortListening(c, a)
    \/ launchResolved(c)
    \/ newContextResolved(c)
    \/ newPageResolved(c)
    \/ afterLaunch(c)
    \/ \E st \in {"disconnected", "connected"} : registerResolved(c, st)
    \/ connectResolved(c)

\* every interleaving, no external operation fails, nothing dies, and every
\* pending operation settles: the event loop runs each continuation
SpecOkFair == SpecOk /\ \A c \in Callers : WF_vars(Progress(c))

\* ---- client-name derivation on its own ----
\* two sessions, each holding any port, compute their client names
InitName ==
    /\ InitManager
    /\ hasManager
    /\ sessionPort \in [Sessions -> NamePorts]
    /\ sessionName = [s \in Sessions |-> NoClient]
    /\ InitNet

\* const clientName = `chrome-devtools-${port}`
computeClientName(s) ==
    /\ sessionName[s] = NoClient
    /\ sessionName' = [sessionName EXCEPT ![s] = ClientName(sessionPort[s])]
    /\ UNCHANGED <<mgrVars, envVars, callVars, obsVars, returned, lastFail, sessionPort,
                   netVars>>

NextName == \E s \in Sessions : computeClientName(s)

SpecName == InitName /\ [][NextName]_vars

\* ---- getFreePort on its own ----
mainVars == <<mgrVars, envVars, callVars, obsVars, returned, lastFail, nameVars>>

\* new Promise executor: createServer, unref, on('error', reject), listen(0)
getFreePort(c) ==
    /\ probeServer[c] = "none"
    /\ probeServer' = [probeServer EXCEPT ![c] = "binding"]
    /\ nListen' = [nListen EXCEPT ![c] = @ + 1]
    /\ UNCHANGED <<mainVars, probeAddress, probePort, probePromise>>

\* ports other probes are bound to at the moment
BoundPorts(c) ==
    {probeAddress[d].port : d \in {d \in Callers : d # c /\ probeServer[d] = "listening"}}

\* the OS binds the socket; a is what server.address() will give
listening(c, a) ==
    /\ probeServer[c] = "binding"
    /\ a.port = 0 \/ a.port \notin BoundPorts(c)
    /\ probeServer' = [probeServer EXCEPT ![c] = "listening"]
    /\ probeAddress' = [probeAddress EXCEPT ![c] = a]
    /\ UNCHANGED <<mainVars, probePort, probePromise, nListen>>

\* the 'error' event of a failed listen: reject
serverError(c) ==
    /\ probeServer[c] = "binding"
    /\ probeServer' = [probeServer EXCEPT ![c] = "failed"]
    /\ probePromise' = [probePromise EXCEPT ![c] = [state |-> "rejected", val |-> "socket error"]]
    /\ UNCHANGED <<mainVars, probeAddress, probePort, nListen>>

\* the listen callback: read the address, work out the port, close the server
listenCallback(c) ==
    /\ probeServer[c] = "listening"
    /\ probePort' = [probePort EXCEPT ![c] = AddressPort(probeAddress[c])]
    /\ probeServer' = [probeServer EXCEPT ![c] = "closing"]
    /\ UNCHANGED <<mainVars, probeAddress, probePromise, nListen>>

\* the close callback resolves whatever the port is
closeCallback_NoPortTest(c) ==
    /\ probeServer[c] = "closing"
    /\ probeServer' = [probeServer EXCEPT ![c] = "closed"]
    /\ probePromise' = [probePromise EXCEPT ![c] = [state |-> "resolved", val |-> probePort[c]]]
    /\ UNCHANGED <<mainVars, probeAddress, probePort, nListen>>

\* the close callback: the socket is closed; resolve or reject
closeCallback(c) ==
    /\ probeServer[c] = "closing"
    /\ probeServer' = [probeServer EXCEPT ![c] = "closed"]
    /\ probePromise' = [probePromise EXCEPT ![c] =
          IF probePort[c] # 0
          THEN [state |-> "resolved", val |-> probePort[c]]
          ELSE [state |-> "rejected", val |-> "Failed to get port"]]
    /\ UNCHANGED <<mainVars, probeAddress, probePort, nListen>>

NextNet ==
    \/ \E c \in Callers : getFreePort(c)
    \/ \E c \in Callers, a \in Addresses : listening(c, a)
    \/ \E c \in Callers : serverError(c)
    \/ \E c \in Callers : listenCallback(c)
    \/ \E c \in Callers : closeCallback(c)

\* concurrent getFreePort calls, each with its own probe server
SpecNet == InitOk /\ [][NextNet]_vars

TypeOK ==
    /\ remoteDebuggingPort \in 0..MaxPort
    /\ browser \in 0..Len(browsers)
    /\ page \in 0..Len(browsers)
    /\ mcpClient \in Names \cup {NoClient}
    /\ \A c \in Callers : pc[c] \in {"idle", "awaitPort", "awaitLaunch", "awaitContext",
                                     "awaitPage", "afterLaunch", "awaitRegister",
                                     "awaitConnect", "ret"}

\* ---- what a step of a call is ----
\* caller c enters ensureBrowserLaunched in this step
EntersEnsure(c) ==
    \/ ensureConnection(c)
    \/ getMcpClient(c) /\ ~(mcpClient # NoClient /\ registry[mcpClient].status = "connected")
    \/ getPage(c) /\ page = 0

BrowserLive == browser # 0 /\ browsers[browser].connected
LaunchPcs == {"awaitLaunch", "awaitContext", "awaitPage"}
ClientPcs == {"awaitRegister", "awaitConnect"}

PortErrors == {"socket error", "Failed to get port"}

\* caller c's call reaches line 63 in this step: its browser stage has just
\* completed or been skipped
ClientStageStarts(c) ==
    /\ EntersEnsure(c) \/ (pc[c] \in {"awaitPort", "afterLaunch"} /\ pc'[c] # pc[c])
    /\ pc'[c] \notin LaunchPcs \cup {"awaitPort"}
    /\ ~(returned'.kind = "error" /\ returned'.val \in PortErrors)

\* caller c's call raises in this step
Raises(c) == returned'.caller = c /\ returned'.kind = "error"

\* ---- claims ----

\* C1: over non-overlapping ensure calls with no external failure, getFreePort is
\* invoked exactly once in total and the stored port keeps its value.
C1_PortAllocatedOnce ==
    /\ [](nCalls >= 1 => nAlloc = 1)
    /\ [][remoteDebuggingPort # 0 => remoteDebuggingPort' = remoteDebuggingPort]_vars

C1_Witness ==
    /\ nCalls >= 2
    /\ AllIdle
    /\ nAlloc = 1
    /\ remoteDebuggingPort # 0
    /\ returned.kind = "void"

\* C2: in every reachable state, interleavings and failures included, the stored
\* port never changes value once it has been set.
C2_PortImmutable ==
    [][remoteDebuggingPort = 0 \/ remoteDebuggingPort' = remoteDebuggingPort]_vars

\* C3: whenever a browser and a client are both stored, the browser's
\* --remote-debugging-port, the client's name and --browser-url, and the stored
\* port are the same value.
C3_SamePort ==
    (browser # 0 /\ mcpClient # NoClient) =>
        /\ browsers[browser].args = LaunchArgs(remoteDebuggingPort)
        /\ mcpClient = ClientName(remoteDebuggingPort)
        /\ registry[mcpClient].args = McpArgs(remoteDebuggingPort)

\* C4: with concurrent calls on a fresh manager, nothing failing and nothing
\* dying, launch is invoked at most once, so every launched browser is the stored one.
C4_LaunchOnce ==
    /\ nLaunch <= 1
    /\ \A b \in DOMAIN browsers : b = browser

\* C5: when an ensure call returns without raising and nothing has died, a Page
\* and a connected client are stored.
C5_ReadyAfterEnsure ==
    returned.kind = "void" => (page # 0 /\ ClientReady)

\* C6: after an ensure call failed in the browser stage (launch, context or page
\* creation), the next ensure call performs the browser stage again.
C6_RetriesBrowserStage ==
    [][\A c \in Callers :
         (hasManager /\ AllIdle /\ lastFail = "browser" /\ EntersEnsure(c)) =>
            pc'[c] = "awaitLaunch"]_vars

\* C7: getPage never returns a Page whose originating browser reports
\* not-connected at the time of the return.
C7_ReturnedPageLive ==
    returned.kind = "page" => browsers[returned.val].connected

\* C8: an ensure call made while the stored browser reports connected does not
\* invoke launch and leaves the stored browser and page unchanged.
C8_ConnectedSkipsLaunch ==
    [][\A c \in Callers :
         /\ (EntersEnsure(c) /\ BrowserLive) =>
               /\ nLaunch' = nLaunch
               /\ pc'[c] \notin LaunchPcs
               /\ browser' = browser
               /\ page' = page
         /\ (pc[c] \in ClientPcs \cup {"ret"} /\ pc'[c] # pc[c]) =>
               /\ nLaunch' = nLaunch
               /\ pc'[c] \notin LaunchPcs
               /\ browser' = browser
               /\ page' = page]_vars

C8_Witness ==
    /\ nCalls = 2
    /\ nAlloc = 1
    /\ nLaunch = 1
    /\ BrowserLive
    /\ page = browser
    /\ pc[1] \in ClientPcs
    /\ \A c \in Callers : c # 1 => pc[c] = "idle"

\* C9: an ensure call made while the stored browser reports not-connected invokes
\* launch exactly once and, when it settles, the previously stored Page is no
\* longer the stored Page.
C9_DeadBrowserRelaunched ==
    [][\A c \in Callers :
         /\ (EntersEnsure(c) /\ browser # 0 /\ ~browsers[browser].connected) =>
               (nLaunch' = nLaunch + 1 /\ pc'[c] = "awaitLaunch")
         /\ (hasManager /\ pc[c] \in LaunchPcs /\ pc'[c] \in {"idle", "afterLaunch"}
                /\ page # 0) =>
               page' # page]_vars

\* C10: getMcpClient called while the stored client reports connected returns that
\* client and changes nothing: no allocation, launch, registration or connect.
C10_ConnectedClientReturned ==
    [][\A c \in Callers :
         (getMcpClient(c) /\ mcpClient # NoClient /\ registry[mcpClient].status = "connected") =>
            /\ returned' = [caller |-> c, kind |-> "client", val |-> mcpClient]
            /\ UNCHANGED <<mgrVars, envVars, callVars, nAlloc, nLaunch>>]_vars

C10_Witness ==
    /\ returned.kind = "client"
    /\ returned.val = mcpClient
    /\ lastFail = "browser"
    /\ browser # 0
    /\ ~browsers[browser].connected
    /\ AllIdle

\* C11: getPage called while a connected browser and a Page are stored returns
\* that stored Page and launches nothing.
C11_StoredPageReturned ==
    [][\A c \in Callers :
         (getPage(c) /\ BrowserLive /\ page # 0) =>
            /\ returned' = [caller |-> c, kind |-> "page", val |-> page]
            /\ UNCHANGED <<mgrVars, envVars, callVars, nAlloc, nLaunch>>]_vars

C11_Witness ==
    /\ returned.kind = "page"
    /\ returned.val = page
    /\ lastFail = "client"
    /\ BrowserLive
    /\ page = browser
    /\ nLaunch = 1
    /\ AllIdle

\* C12: when getFreePort fails, the call raises that error, starts neither the
\* browser stage nor the client stage, and leaves the stored port, browser, page
\* and client as they were.
AllocationFails(c, e) ==
    \/ e = "socket error" /\ getFreePortError(c)
    \/ e = "Failed to get port" /\ \E a \in BadAddresses : getFreePortListening(c, a)

C12_AllocationFailureRaised ==
    [][\A c \in Callers, e \in {"socket error", "Failed to get port"} :
         AllocationFails(c, e) =>
            /\ returned' = [caller |-> c, kind |-> "error", val |-> e]
            /\ pc'[c] = "idle"
            /\ UNCHANGED <<mgrVars, envVars, nLaunch>>]_vars

C12_Witness ==
    /\ returned.kind = "error"
    /\ returned.val \in {"socket error", "Failed to get port"}
    /\ lastFail = "port"
    /\ nAlloc = 1
    /\ nLaunch = 0
    /\ remoteDebuggingPort = 0
    /\ browser = 0
    /\ page = 0
    /\ mcpClient = NoClient
    /\ registry = [n \in Names |-> Absent]

\* C13: a step in which a call raises, and every step a call takes in its client
\* stage, leaves the stored port, browser and page as they were (the port stage's
\* own store in that step aside): nothing that an earlier stage stored is rolled back.
C13_NoRollback ==
    [][\A c \in Callers :
         /\ Raises(c) =>
               /\ UNCHANGED <<browser, page>>
               /\ \/ remoteDebuggingPort' = remoteDebuggingPort
                  \/ \E a \in GoodAddresses :
                        getFreePortListening(c, a) /\ remoteDebuggingPort' = AddressPort(a)
         /\ (pc[c] \in ClientPcs \cup {"afterLaunch"} /\ pc'[c] # pc[c]) =>
               UNCHANGED <<remoteDebuggingPort, browser, page>>]_vars

C13_Witness ==
    /\ returned.kind = "error"
    /\ returned.val \in {"registration failed", "connect failed"}
    /\ remoteDebuggingPort # 0
    /\ BrowserLive
    /\ page = browser
    /\ AllIdle

\* C14: over calls made one after another, registration is invoked only while the
\* registry holds no client under the port-derived name, a client the registry
\* holds is never replaced, and a client found not connected gets connect invoked.
C14_RegisteredOnce ==
    [][\A c \in Callers :
         /\ (pc[c] # "awaitRegister" /\ pc'[c] = "awaitRegister") =>
               registry[ClientName(localPort'[c])].status = "absent"
         /\ \A n \in Names :
               registry[n].status # "absent" =>
                  (registry'[n].status # "absent" /\ registry'[n].args = registry[n].args)
         /\ (hasManager /\ ClientStageStarts(c) /\ remoteDebuggingPort' # 0
               /\ registry[ClientName(remoteDebuggingPort')].status = "disconnected") =>
               pc'[c] = "awaitConnect"
         /\ (pc[c] = "awaitRegister" /\ pc'[c] # pc[c]
               /\ registry'[ClientName(localPort[c])].status = "disconnected") =>
               pc'[c] = "awaitConnect"]_vars

C14_Witness ==
    /\ mcpClient # NoClient
    /\ mcpClient = ClientName(remoteDebuggingPort)
    /\ registry[mcpClient].status = "disconnected"
    /\ pc[1] = "awaitConnect"
    /\ nCalls >= 2

\* C15: two sessions compute the same client name exactly when they hold the
\* same port.
C15_NameInjective ==
    \A s, t \in Sessions :
        (sessionName[s] # NoClient /\ sessionName[t] # NoClient) =>
            (sessionName[s] = sessionName[t] <=> sessionPort[s] = sessionPort[t])

C15_Witness ==
    /\ sessionPort["p"] = 11
    /\ sessionPort["q"] = 101
    /\ sessionName["p"] = <<"chrome-devtools-", "1", "1">>
    /\ sessionName["q"] = <<"chrome-devtools-", "1", "0", "1">>

\* C16: with concurrent calls and no external operation failing, no getPage call
\* fails with 'Browser page not available', and every getPage call eventually
\* returns a Page.
C16_GetPageReturnsPage ==
    /\ [](~(returned.kind = "error" /\ returned.val = "Browser page not available"))
    /\ \A c \in Callers :
          (op[c] = "getPage") ~> (returned.caller = c /\ returned.kind = "page")

\* C17: in every reachable state a stored Page was created from the currently
\* stored browser.
C17_PageOfStoredBrowser == page # 0 => page = browser

\* C18: within a call the stages run in dependency order: launch is invoked only
\* with a port stored and is given that stored port; the client guard is reached
\* only when the call's browser stage has completed or was skipped because the
\* stored browser is connected, never with no browser stored; no call goes back
\* to an earlier stage.
C18_StagesInOrder ==
    [][\A c \in Callers :
         /\ (pc[c] # "awaitLaunch" /\ pc'[c] = "awaitLaunch") =>
               /\ remoteDebuggingPort' # 0
               /\ localPort'[c] = remoteDebuggingPort'
               /\ nLaunch' = nLaunch + 1
         /\ (pc[c] = "awaitLaunch" /\ pc'[c] = "awaitContext") =>
               browsers'[browser'].args = LaunchArgs(localPort[c])
         /\ ClientStageStarts(c) =>
               /\ pc[c] = "afterLaunch" \/ BrowserLive
               /\ browser # 0
         /\ (pc[c] \in ClientPcs \cup {"afterLaunch", "ret"}) =>
               pc'[c] \notin LaunchPcs \cup {"awaitPort"}
         /\ (pc[c] \in LaunchPcs) => pc'[c] # "awaitPort"]_vars

C18_Witness ==
    /\ nCalls = 1
    /\ pc[1] = "awaitRegister"
    /\ localPort[1] = remoteDebuggingPort
    /\ nLaunch = 1
    /\ browser # 0
    /\ browsers[browser].args = LaunchArgs(remoteDebuggingPort)
    /\ page = browser

\* C19: a getFreePort call listens once; through the listen path it settles only
\* when the probe socket is closed, resolving with the OS-assigned port exactly
\* when that is a non-zero number and rejecting when the address is a string or
\* has no port; a socket error rejects; a settled call leaves no socket listening.
C19_SingleProbeClosed ==
    \A c \in Callers :
        /\ nListen[c] <= 1
        /\ probePromise[c].state = "resolved" =>
              /\ probeServer[c] = "closed"
              /\ probeAddress[c].kind = "info"
              /\ probePromise[c].val = probeAddress[c].port
              /\ probePromise[c].val # 0
        /\ (probePromise[c].state = "rejected" /\ probePromise[c].val = "Failed to get port") =>
              /\ probeServer[c] = "closed"
              /\ probeAddress[c].kind \in {"string", "null"} \/ probeAddress[c].port = 0
        /\ (probePromise[c].state = "rejected" /\ probePromise[c].val = "socket error") =>
              probeServer[c] = "failed"
        /\ probeServer[c] = "failed" => probePromise[c].state = "rejected"
        /\ probeServer[c] = "closed" => probePromise[c].state # "pending"
        /\ probeServer[c] \in {"binding", "listening", "closing"} =>
              probePromise[c].state = "pending"

C19_Witness ==
    /\ probePromise[1].state = "resolved"
    /\ probePromise[1].val = 1
    /\ probeServer[1] = "closed"
    /\ probePromise[2].state = "rejected"
    /\ probePromise[2].val = "Failed to get port"
    /\ probeAddress[2].kind = "string"
    /\ probeServer[2] = "closed"

\* C20: whenever ensureBrowserLaunched has returned normally to its caller a
\* client is stored, so a getMcpClient call resuming after it returns the stored
\* client and never raises from its own check; a getPage call can be in that
\* position with no Page stored.
C20_ClientStoredAfterEnsure ==
    /\ [](\A c \in Callers : pc[c] = "ret" => mcpClient # NoClient)
    /\ [][\A c \in Callers :
            (Resume(c) /\ op[c] = "getMcpClient") =>
               returned' = [caller |-> c, kind |-> "client", val |-> mcpClient]]_vars

C20_Witness ==
    /\ pc[1] = "ret"
    /\ op[1] = "getPage"
    /\ page = 0
    /\ mcpClient # NoClient
    /\ BrowserLive
====
